---------------------------- MODULE Spec2Model ----------------------------
(***************************************************************************)
(* Model of the access-lifecycle coordinator of aws_jit_tools              *)
(* (scripts/access_handler.py) and of the duration helpers of              *)
(* scripts/utils/slack_messages.py.                                        *)
(*                                                                         *)
(* Texts (duration strings) are sequences of one-character strings, so     *)
(* that slicing, prefix tests and int() are modelled by what they do.      *)
(* Display strings produced by the formatters are TLA+ strings.            *)
(***************************************************************************)
EXTENDS Integers, Sequences, FiniteSets, TLC

VARIABLES
    probe,      \* inputs and results of the pure-function specifications
    env,        \* os.environ: REVOKATION_WEBHOOK_URL / AWS_ACCOUNT_ID present?
    handler,    \* AWSAccessHandler object: construction state and SSO instance
    req,        \* the grant request being served (position and locals)
    events,     \* calls made to external collaborators by the current request
    tasks,      \* background revocation threads started so far
    nreq        \* number of grant requests started

vars == <<probe, env, handler, req, events, tasks, nreq>>
sysVars == <<env, handler, req, events, tasks, nreq>>

-----------------------------------------------------------------------------
(* Python text primitives *)

Digits == {"0", "1", "2", "3", "4", "5", "6", "7", "8", "9"}

DigitVal(c) ==
    CASE c = "0" -> 0 [] c = "1" -> 1 [] c = "2" -> 2 [] c = "3" -> 3
      [] c = "4" -> 4 [] c = "5" -> 5 [] c = "6" -> 6 [] c = "7" -> 7
      [] c = "8" -> 8 [] c = "9" -> 9

\* str.startswith(prefix)
StartsWith(s, prefix) ==
    /\ Len(s) >= Len(prefix)
    /\ SubSeq(s, 1, Len(prefix)) = prefix

\* s[2:-1]: from the third character up to, not including, the last one
Slice2ToLast(s) == SubSeq(s, 3, Len(s) - 1)

RECURSIVE DigitsValue(_)
DigitsValue(ds) ==
    IF ds = <<>> THEN 0
    ELSE 10 * DigitsValue(SubSeq(ds, 1, Len(ds) - 1)) + DigitVal(ds[Len(ds)])

AllDigits(ds) == ds # <<>> /\ \A i \in 1..Len(ds) : ds[i] \in Digits

\* int(text) over the alphabet of the model (digits, the signs, letters):
\* an optional sign followed by at least one digit; anything else raises
\* ValueError.  Whitespace and underscores are not in the alphabet.
PyInt(s) ==
    LET signed == s # <<>> /\ s[1] \in {"-", "+"}
        body   == IF signed THEN Tail(s) ELSE s
    IN  IF AllDigits(body)
        THEN [ok |-> TRUE,
              val |-> IF signed /\ s[1] = "-" THEN 0 - DigitsValue(body)
                      ELSE DigitsValue(body)]
        ELSE [ok |-> FALSE, val |-> 0]

-----------------------------------------------------------------------------
(* access_handler.py: duration handling of the coordinator *)

\* AWSAccessHandler.parse_iso8601_duration: one value and one unit letter
\* after 'PT'; every other text, and every exception, gives 3600.
parse_iso8601_duration(duration) ==
    IF StartsWith(duration, <<"P", "T">>)
    THEN LET value == PyInt(Slice2ToLast(duration))
             unit  == duration[Len(duration)]
         IN  IF ~value.ok THEN 3600
             ELSE IF unit = "H" THEN value.val * 3600
             ELSE IF unit = "M" THEN value.val * 60
             ELSE IF unit = "S" THEN value.val
             ELSE 3600
    ELSE 3600

\* AWSAccessHandler.validate_duration.  parse_iso8601_duration swallows
\* every exception itself, so the except branch is never taken for a text.
validate_duration(requested_duration, max_duration) ==
    LET requested_seconds == parse_iso8601_duration(requested_duration)
        max_seconds       == parse_iso8601_duration(max_duration)
    IN  IF requested_seconds > max_seconds THEN max_duration
        ELSE requested_duration

-----------------------------------------------------------------------------
(* format_duration: f"{seconds / 3600:.1f} hours" etc. *)

RECURSIVE Pow2Mod(_, _)
Pow2Mod(k, m) == IF k = 0 THEN 1 % m ELSE (2 * Pow2Mod(k - 1, m)) % m

\* largest j with 3600 * 2^j <= s   (s >= 3600)
RECURSIVE HoursExponent(_)
HoursExponent(s) == IF s < 7200 THEN 0 ELSE 1 + HoursExponent(s \div 2)

\* The quotient seconds / 3600 is an IEEE double: the 53-bit rounding of the
\* true quotient.  TRUE when the double lies above the true quotient, which
\* decides how a value exactly halfway between two tenths is printed.
\* r is (s * 2^k) mod 3600 where 2^k scales the quotient to 53 bits.
DoubleAbove(s) ==
    LET k == 52 - HoursExponent(s)
        r == ((s % 3600) * Pow2Mod(k, 3600)) % 3600
    IN  2 * r > 3600

DoubleExact(s) ==
    LET k == 52 - HoursExponent(s)
    IN  ((s % 3600) * Pow2Mod(k, 3600)) % 3600 = 0

\* number of tenths of an hour printed by "{:.1f}" for s / 3600, s >= 3600
HoursTenths(s) ==
    LET lo  == s \div 360
        rem == s % 360
    IN  IF rem < 180 THEN lo
        ELSE IF rem > 180 THEN lo + 1
        ELSE IF DoubleExact(s) THEN (IF lo % 2 = 0 THEN lo ELSE lo + 1)
        ELSE IF DoubleAbove(s) THEN lo + 1
        ELSE lo

\* the formatter with the minutes rounded to the nearest integer
format_duration_RoundsMinutes(seconds) ==
    IF seconds >= 3600
    THEN LET t == HoursTenths(seconds)
         IN  ToString(t \div 10) \o "." \o ToString(t % 10) \o " hours"
    ELSE IF seconds >= 60
    THEN ToString((seconds + 30) \div 60) \o " minutes"
    ELSE ToString(seconds) \o " seconds"

\* access_handler.format_duration
format_duration(seconds) ==
    IF seconds >= 3600
    THEN LET t == HoursTenths(seconds)
         IN  ToString(t \div 10) \o "." \o ToString(t % 10) \o " hours"
    ELSE IF seconds >= 60
    THEN ToString(seconds \div 60) \o " minutes"
    ELSE ToString(seconds) \o " seconds"

\* slack_messages.format_duration, the formatter of the message formatter
slack_format_duration(seconds) ==
    IF seconds >= 3600
    THEN LET hours == HoursTenths(seconds)
         IN  ToString(hours \div 10) \o "." \o ToString(hours % 10) \o " hours"
    ELSE IF seconds >= 60
    THEN LET minutes == seconds \div 60
         IN  ToString(minutes) \o " minutes"
    ELSE ToString(seconds) \o " seconds"

-----------------------------------------------------------------------------
(* Identity resolution: AWSAccessHandler.get_user_by_email *)

\* Python's None, as a record so that it compares with user records
None == [kind |-> "None"]

\* str.lower() on the names, tag keys and tag values of the model
Lower(s) ==
    CASE s = "Alice@X.io" -> "alice@x.io"
      [] s = "Email" -> "email"
      [] OTHER -> s

\* one tag of tags_response['Tags'] associates the user with the email
TagMatches(tag, email) ==
    Lower(tag.Key) = "email" /\ Lower(tag.Value) = Lower(email)

\* the inner loop over page['Users'], from the i-th user of the page on:
\* primary name first, then the tag lookup, whose failure skips the user
RECURSIVE IamScanPage(_, _, _)
IamScanPage(email, page, i) ==
    IF i > Len(page) THEN [found |-> FALSE, user |-> None, calls |-> <<>>]
    ELSE LET user == page[i]
             call == <<"iam.list_user_tags", user.UserName>>
             rest == IamScanPage(email, page, i + 1)
         IN  IF Lower(user.UserName) = Lower(email)
             THEN [found |-> TRUE, user |-> user, calls |-> <<>>]
             ELSE IF user.TagsRaise
             THEN [rest EXCEPT !.calls = <<call>> \o @]
             ELSE IF \E t \in 1..Len(user.Tags) : TagMatches(user.Tags[t], email)
             THEN [found |-> TRUE, user |-> user, calls |-> <<call>>]
             ELSE [rest EXCEPT !.calls = <<call>> \o @]

\* the loop over paginator.paginate(), from page p on.  iam.failAfter = n
\* (n >= 0) makes the paginator raise instead of yielding page n + 1.
\* A logged "iam.list_users" call is a page request that yields or raises.
RECURSIVE IamScan(_, _, _)
IamScan(email, iam, p) ==
    LET fetch == <<"iam.list_users", p>>
    IN  IF iam.failAfter = p - 1
        THEN [raised |-> TRUE, found |-> FALSE, user |-> None, calls |-> <<fetch>>]
        ELSE IF p > Len(iam.pages)
        THEN [raised |-> FALSE, found |-> FALSE, user |-> None, calls |-> <<>>]
        ELSE LET here == IamScanPage(email, iam.pages[p], 1)
                 rest == IamScan(email, iam, p + 1)
             IN  IF here.found
                 THEN [raised |-> FALSE, found |-> TRUE, user |-> here.user,
                       calls |-> <<fetch>> \o here.calls]
                 ELSE [rest EXCEPT !.calls = <<fetch>> \o here.calls \o @]

\* get_user_by_email with backend B queried whatever backend A returned
get_user_by_email_AlwaysQueriesB(email, hasStore, ic, iam) ==
    LET callsA == IF hasStore THEN << <<"identitystore.list_users", email>> >>
                  ELSE <<>>
        b == IamScan(email, iam, 1)
    IN  [raised |-> FALSE,
         result |-> IF hasStore /\ ~ic.raises /\ ic.Users # <<>> THEN ic.Users[1]
                    ELSE IF b.found THEN b.user ELSE None,
         calls  |-> callsA \o b.calls]

\* get_user_by_email giving up when the backend A query raises
get_user_by_email_AFailureAborts(email, hasStore, ic, iam) ==
    LET callsA == IF hasStore THEN << <<"identitystore.list_users", email>> >>
                  ELSE <<>>
    IN  IF hasStore /\ ic.raises
        THEN [raised |-> FALSE, result |-> None, calls |-> callsA]
        ELSE IF hasStore /\ ic.Users # <<>>
        THEN [raised |-> FALSE, result |-> ic.Users[1], calls |-> callsA]
        ELSE LET b == IamScan(email, iam, 1)
             IN  [raised |-> FALSE,
                  result |-> IF b.found THEN b.user ELSE None,
                  calls  |-> callsA \o b.calls]

\* get_user_by_email.  hasStore is hasattr(self, 'identity_store_id');
\* ic is the outcome of identitystore.list_users, iam the IAM directory.
\* Both backend failures are caught inside (lines 143 and 165), so the
\* function returns and `raised` is FALSE on every path.
get_user_by_email(email, hasStore, ic, iam) ==
    LET callsA == IF hasStore THEN << <<"identitystore.list_users", email>> >>
                  ELSE <<>>
    IN  IF hasStore /\ ~ic.raises /\ ic.Users # <<>>
        THEN [raised |-> FALSE, result |-> ic.Users[1], calls |-> callsA]
        ELSE LET b == IamScan(email, iam, 1)
             IN  [raised |-> FALSE,
                  result |-> IF b.found THEN b.user ELSE None,
                  calls  |-> callsA \o b.calls]

-----------------------------------------------------------------------------
(* Policy resolution: AWSAccessHandler.get_permission_set_arn *)

\* the inner loop over page['PermissionSets'], from the i-th entry on:
\* describe each permission set and compare its name exactly
RECURSIVE PsetScanPage(_, _, _)

\* the loop without the early return: the last match of the page wins
PsetScanPage_LastMatchWins(name, page, i) ==
    IF i > Len(page)
    THEN [raised |-> FALSE, found |-> FALSE, arn |-> None, calls |-> <<>>]
    ELSE LET ps   == page[i]
             call == <<"sso.describe_permission_set", ps.arn>>
             rest == PsetScanPage(name, page, i + 1)
         IN  IF ps.DescribeRaises
             THEN [raised |-> TRUE, found |-> FALSE, arn |-> None, calls |-> <<call>>]
             ELSE IF ps.Name = name /\ ~rest.found /\ ~rest.raised
             THEN [raised |-> FALSE, found |-> TRUE, arn |-> [kind |-> "arn", id |-> ps.arn],
                   calls |-> <<call>> \o rest.calls]
             ELSE [rest EXCEPT !.calls = <<call>> \o @]

PsetScanPage(name, page, i) ==
    IF i > Len(page)
    THEN [raised |-> FALSE, found |-> FALSE, arn |-> None, calls |-> <<>>]
    ELSE LET ps   == page[i]
             call == <<"sso.describe_permission_set", ps.arn>>
             rest == PsetScanPage(name, page, i + 1)
         IN  IF ps.DescribeRaises
             THEN [raised |-> TRUE, found |-> FALSE, arn |-> None, calls |-> <<call>>]
             ELSE IF ps.Name = name
             THEN [raised |-> FALSE, found |-> TRUE, arn |-> [kind |-> "arn", id |-> ps.arn],
                   calls |-> <<call>>]
             ELSE [rest EXCEPT !.calls = <<call>> \o @]

RECURSIVE PsetScan(_, _, _)
PsetScan(name, catalog, p) ==
    LET fetch == <<"sso.list_permission_sets", p>>
    IN  IF catalog.failAfter = p - 1
        THEN [raised |-> TRUE, found |-> FALSE, arn |-> None, calls |-> <<fetch>>]
        ELSE IF p > Len(catalog.pages)
        THEN [raised |-> FALSE, found |-> FALSE, arn |-> None, calls |-> <<>>]
        ELSE LET here == PsetScanPage(name, catalog.pages[p], 1)
                 rest == PsetScan(name, catalog, p + 1)
             IN  IF here.found \/ here.raised
                 THEN [here EXCEPT !.calls = <<fetch>> \o @]
                 ELSE [rest EXCEPT !.calls = <<fetch>> \o here.calls \o @]

\* get_permission_set_arn: any exception is logged and re-raised (194-196)
get_permission_set_arn(permission_set_name, catalog) ==
    LET r == PsetScan(permission_set_name, catalog, 1)
    IN  [raised |-> r.raised, result |-> r.arn, calls |-> r.calls]

-----------------------------------------------------------------------------
(* slack_messages.py: the Duration Codec *)

\* length of the run of digits of s that starts at position pos
RECURSIVE DigitRun(_, _)
DigitRun(s, pos) ==
    IF pos <= Len(s) /\ s[pos] \in Digits THEN 1 + DigitRun(s, pos + 1) ELSE 0

\* one optional group (?:(\d+)<unit>)? tried at position pos: the digits
\* are taken only when the unit letter follows them
MatchGroup(s, pos, unit) ==
    LET n == DigitRun(s, pos)
    IN  IF n > 0 /\ pos + n <= Len(s) /\ s[pos + n] = unit
        THEN [took |-> TRUE, val |-> DigitsValue(SubSeq(s, pos, pos + n - 1)),
              next |-> pos + n + 1]
        ELSE [took |-> FALSE, val |-> 0, next |-> pos]

\* pattern.match(duration): a match of a prefix of the text.  `end` is the
\* number of characters the match consumed.
MatchIsoPattern(s) ==
    IF ~StartsWith(s, <<"P", "T">>)
    THEN [ok |-> FALSE, hours |-> 0, minutes |-> 0, seconds |-> 0, end |-> 0]
    ELSE LET h  == MatchGroup(s, 3, "H")
             m  == MatchGroup(s, h.next, "M")
             sc == MatchGroup(s, m.next, "S")
         IN  [ok |-> TRUE, hours |-> h.val, minutes |-> m.val,
              seconds |-> sc.val, end |-> sc.next - 1]

\* parse_iso_duration: ValueError when the pattern does not match
parse_iso_duration(duration) ==
    LET match == MatchIsoPattern(duration)
    IN  IF ~match.ok THEN [ok |-> FALSE, val |-> 0]
        ELSE [ok |-> TRUE,
              val |-> match.hours * 3600 + match.minutes * 60 + match.seconds]

-----------------------------------------------------------------------------
(* Inputs of the model *)

MaxIamUsers == 3   \* users in the IAM directory
PageLen == 2       \* users, or permission sets, per page of a listing
MaxPsets == 3      \* permission sets in the catalog

SeqsUpTo(S, n) == UNION {[1..k -> S] : k \in 0..n}

\* the pages of a listing: PageLen entries each, the last one shorter; an
\* empty listing is one empty page
RECURSIVE Pages(_)
Pages(list) ==
    IF Len(list) <= PageLen THEN <<list>>
    ELSE <<SubSeq(list, 1, PageLen)>> \o Pages(SubSeq(list, PageLen + 1, Len(list)))

NoFailure == 0 - 1

PT == <<"P", "T">>
NumberTexts == {<<"1">>, <<"2">>, <<"3", "0">>, <<"-", "5">>}
Component(unit) == {<<>>} \cup {n \o <<unit>> : n \in NumberTexts}

\* duration texts: with or without the marker, any in-order subset of the
\* hours, minutes and seconds components, with or without a trailing letter
DurationTexts ==
    {p \o h \o m \o sc \o x :
        p \in {PT, <<>>}, h \in Component("H"), m \in Component("M"),
        sc \in Component("S"), x \in {<<>>, <<"X">>}}

Emails == {"alice@x.io", "bob@x.io", "carol@x.io"}

\* Identity Center users (backend A) carry a UserId and no Arn
\* the listing is filtered by UserName = email on the server
IcUser(name, id) == [UserName |-> name, UserId |-> id]
IcResponses(email) ==
    {[raises |-> TRUE, Users |-> <<>>],
     [raises |-> FALSE, Users |-> <<>>],
     [raises |-> FALSE, Users |-> <<IcUser(email, "ic-1")>>],
     [raises |-> FALSE, Users |-> <<IcUser(email, "ic-2"), IcUser(email, "ic-1")>>]}

\* IAM users (backend B): matched by name, by an email tag, not at all, or
\* with a failing tag lookup
IamUser(name, id, tagsRaise, tags) ==
    [UserName |-> name, UserId |-> id, Arn |-> "arn:" \o id,
     TagsRaise |-> tagsRaise, Tags |-> tags]
IamPool ==
    {IamUser("Alice@X.io", "iam-1", FALSE, <<>>),
     IamUser("svc", "iam-2", FALSE, <<[Key |-> "Email", Value |-> "bob@x.io"]>>),
     IamUser("ops", "iam-3", TRUE, <<>>),
     IamUser("dev", "iam-4", FALSE, <<[Key |-> "team", Value |-> "alice@x.io"]>>)}

IamDirectories(n) ==
    {[pages |-> Pages(us), failAfter |-> f] :
        <<us, f>> \in {<<us, f>> \in SeqsUpTo(IamPool, n) \X (NoFailure..n) :
                          f <= Len(Pages(us))}}

PsetNames == {"Admin", "ReadOnly"}
PsetEntries == {[Name |-> nm, DescribeRaises |-> r] : nm \in PsetNames, r \in BOOLEAN}
WithArns(list) == [i \in 1..Len(list) |->
                     [arn |-> i, Name |-> list[i].Name,
                      DescribeRaises |-> list[i].DescribeRaises]]
Catalogs(n) ==
    {[pages |-> Pages(WithArns(ps)), failAfter |-> f] :
        <<ps, f>> \in {<<ps, f>> \in SeqsUpTo(PsetEntries, n) \X (NoFailure..n) :
                          f <= Len(Pages(ps))}}

-----------------------------------------------------------------------------
(* The serving process, idle: what the pure-function specifications hold fixed *)

NoRequest == [pc |-> "idle"]

SysIdle ==
    /\ env = [webhook |-> FALSE]
    /\ handler = [state |-> "Initializing"]
    /\ req = NoRequest
    /\ events = <<>>
    /\ tasks = <<>>
    /\ nreq = 0

-----------------------------------------------------------------------------
(* Specification of the duration handling: grant_access lines 203-206 *)

InitDuration ==
    /\ probe \in {[kind |-> "duration", phase |-> "input", requested |-> r, max |-> m] :
                     r \in DurationTexts, m \in DurationTexts}
    /\ SysIdle

ApplyDuration ==
    /\ probe.kind = "duration" /\ probe.phase = "input"
    /\ LET validated_duration == validate_duration(probe.requested, probe.max)
           duration_seconds   == parse_iso8601_duration(validated_duration)
       IN  probe' = [kind |-> "duration", phase |-> "done",
                     requested |-> probe.requested, max |-> probe.max,
                     validated |-> validated_duration,
                     seconds |-> duration_seconds,
                     display |-> format_duration(duration_seconds)]
    /\ UNCHANGED sysVars

NextDuration == ApplyDuration

SpecDuration == InitDuration /\ [][NextDuration]_vars

-----------------------------------------------------------------------------
(* Specification of identity resolution *)

InitResolve ==
    /\ \E e \in Emails, iam \in IamDirectories(MaxIamUsers) :
          \E ic \in IcResponses(e) :
             probe = [kind |-> "resolve", phase |-> "input", email |-> e, ic |-> ic, iam |-> iam]
    /\ SysIdle

ApplyResolve ==
    /\ probe.kind = "resolve" /\ probe.phase = "input"
    /\ LET r == get_user_by_email(probe.email, TRUE, probe.ic, probe.iam)
       IN  probe' = [kind |-> "resolve", phase |-> "done",
                     email |-> probe.email, ic |-> probe.ic, iam |-> probe.iam,
                     raised |-> r.raised, result |-> r.result, calls |-> r.calls]
    /\ UNCHANGED sysVars

NextResolve == ApplyResolve

SpecResolve == InitResolve /\ [][NextResolve]_vars

-----------------------------------------------------------------------------
(* Specification of policy resolution *)

InitPolicy ==
    /\ probe \in {[kind |-> "policy", phase |-> "input", name |-> nm, catalog |-> c] :
                     nm \in PsetNames \cup {"admin"}, c \in Catalogs(MaxPsets)}
    /\ SysIdle

ApplyPolicy ==
    /\ probe.kind = "policy" /\ probe.phase = "input"
    /\ LET r == get_permission_set_arn(probe.name, probe.catalog)
       IN  probe' = [kind |-> "policy", phase |-> "done",
                     name |-> probe.name, catalog |-> probe.catalog,
                     raised |-> r.raised, result |-> r.result, calls |-> r.calls]
    /\ UNCHANGED sysVars

NextPolicy == ApplyPolicy

SpecPolicy == InitPolicy /\ [][NextPolicy]_vars

-----------------------------------------------------------------------------
(* The coordinator: AWSAccessHandler and its background threads *)

MaxRequests == 2    \* grant requests served by one process

\* how many SSO instances list_instances returns: none, one, several
InstanceCounts == {0, 1, 2}

\* Optional[...] arguments of _schedule_revocation_webhook
Absent == <<>>
Some(x) == <<x>>

AccountId == "111122223333"          \* os.environ['AWS_ACCOUNT_ID']
RequestPsets == {"Admin"}

RequestEmails == {"alice@x.io", "carol@x.io"}
RequestedTexts == {PT \o <<"2", "H">>, PT \o <<"3", "0", "M">>, PT \o <<"-", "5", "S">>}
CeilingTexts == {PT \o <<"1", "H">>, PT \o <<"1", "H", "3", "0", "M">>}
Buckets == {"logs"}
Templates == {"read-only"}

\* _handle_error(message, error): the body is not part of the sources at
\* hand; the request ends as a failure reported to the caller
handle_error(r, message, error) ==
    [r EXCEPT !.pc = "failed", !.failure = [message |-> message, error |-> error],
              !.user = None, !.permission_set_arn = None, !.details = ""]

\* normal return of a grant operation: its locals go out of scope
Return(r) ==
    [r EXCEPT !.pc = "done", !.user = None, !.permission_set_arn = None, !.details = ""]

\* one entry of the log of calls made to external collaborators
Call(name, arg) == <<name, arg>>

Init ==
    /\ probe = [kind |-> "none"]
    /\ env \in {[webhook |-> w] : w \in BOOLEAN}
    /\ handler = [state |-> "Initializing"]
    /\ req = NoRequest
    /\ events = <<>>
    /\ tasks = <<>>
    /\ nreq = 0

\* AWSAccessHandler.__init__: the first listed SSO instance is selected;
\* an empty listing, or a failing call, goes to _handle_error
Initialize ==
    /\ handler.state = "Initializing"
    /\ \E raises \in BOOLEAN, n \in InstanceCounts :
          handler' = IF raises \/ n = 0
                     THEN [state |-> "Failed"]
                     ELSE [state |-> "Ready", instance_arn |-> 1,
                           identity_store_id |-> 1, instances |-> n]
    /\ UNCHANGED <<probe, env, req, events, tasks, nreq>>

Serving == handler.state = "Ready" /\ req.pc \in {"idle", "done", "failed"}

\* grant_access, lines 200-206: validate, parse and format the duration
StartGrant ==
    /\ Serving /\ nreq < MaxRequests
    /\ \E user_email \in RequestEmails, permission_set_name \in RequestPsets,
          requested_duration \in RequestedTexts, max_duration \in CeilingTexts :
          LET validated_duration == validate_duration(requested_duration, max_duration)
              duration_seconds   == parse_iso8601_duration(validated_duration)
          IN  req' = [pc |-> "get_user", op |-> "sso", id |-> nreq + 1,
                      user_email |-> user_email, name |-> permission_set_name,
                      requested |-> requested_duration, max |-> max_duration,
                      validated |-> validated_duration,
                      duration_seconds |-> duration_seconds,
                      duration_display |-> format_duration(duration_seconds),
                      user |-> None, permission_set_arn |-> None,
                      details |-> "", failure |-> None]
    /\ events' = <<>>
    /\ nreq' = nreq + 1
    /\ UNCHANGED <<probe, env, handler, tasks>>

\* grant_s3_access, lines 273-278: the duration is parsed, not validated
StartS3Grant ==
    /\ Serving /\ nreq < MaxRequests
    /\ \E user_email \in RequestEmails, bucket_name \in Buckets,
          policy_template \in Templates, duration \in RequestedTexts :
          LET duration_seconds == parse_iso8601_duration(duration)
          IN  req' = [pc |-> "get_user", op |-> "s3", id |-> nreq + 1,
                      user_email |-> user_email, name |-> bucket_name,
                      requested |-> duration, max |-> duration,
                      validated |-> duration,
                      duration_seconds |-> duration_seconds,
                      duration_display |-> format_duration(duration_seconds),
                      user |-> None, permission_set_arn |-> None,
                      details |-> policy_template, failure |-> None]
    /\ events' = <<>>
    /\ nreq' = nreq + 1
    /\ UNCHANGED <<probe, env, handler, tasks>>

\* lines 208-211 and 280-283: resolve the identity, fail when it is absent
\* the message of the except clause of the running operation (lines 268-269
\* and 329-330)
\* the except clause of revoke_access is not part of the sources at hand
FailureMessage(op) ==
    IF op = "sso" THEN "Failed to grant access"
    ELSE IF op = "s3" THEN "Failed to grant S3 access"
    ELSE "Failed to revoke access"

ResolveUser ==
    /\ req.pc = "get_user"
    /\ \E ic \in IcResponses(req.user_email), iam \in IamDirectories(1) :
          LET r == get_user_by_email(req.user_email, "identity_store_id" \in DOMAIN handler,
                                     ic, iam)
          IN  /\ events' = Append(events, Call("get_user_by_email",
                                             IF r.raised THEN "raised"
                                             ELSE IF r.result = None THEN "absent"
                                             ELSE "found"))
              /\ req' = IF r.raised
                        THEN handle_error(req, FailureMessage(req.op), "Exception")
                        ELSE IF r.result = None
                        THEN handle_error(req, FailureMessage(req.op), "User not found")
                        ELSE [req EXCEPT !.user = r.result,
                                         !.pc = IF req.op = "sso" THEN "get_pset"
                                                ELSE IF req.op = "s3" THEN "head_bucket"
                                                ELSE "delete_assignment"]
    /\ UNCHANGED <<probe, env, handler, tasks, nreq>>

\* grant_access without the check of line 215
ResolvePolicy_IgnoresAbsent ==
    /\ req.pc = "get_pset"
    /\ \E catalog \in Catalogs(1) :
          LET r == get_permission_set_arn(req.name, catalog)
          IN  /\ events' = Append(events, Call("get_permission_set_arn",
                                             IF r.raised THEN "raised"
                                             ELSE IF r.result = None THEN "absent"
                                             ELSE "found"))
              /\ req' = IF r.raised
                        THEN handle_error(req, "Failed to grant access", "Exception")
                        ELSE [req EXCEPT !.permission_set_arn = r.result,
                                         !.pc = "details"]
    /\ UNCHANGED <<probe, env, handler, tasks, nreq>>

\* lines 213-216: resolve the permission set, fail when it is absent
ResolvePolicy ==
    /\ req.pc = "get_pset"
    /\ \E catalog \in Catalogs(1) :
          LET r == get_permission_set_arn(req.name, catalog)
          IN  /\ events' = Append(events, Call("get_permission_set_arn",
                                             IF r.raised THEN "raised"
                                             ELSE IF r.result = None THEN "absent"
                                             ELSE "found"))
              /\ req' = IF r.raised
                        THEN handle_error(req, "Failed to grant access", "Exception")
                        ELSE IF r.result = None
                        THEN handle_error(req, "Failed to grant access",
                                          "Permission set not found")
                        ELSE [req EXCEPT !.permission_set_arn = r.result,
                                         !.pc = "details"]
    /\ UNCHANGED <<probe, env, handler, tasks, nreq>>

\* lines 218-224: account alias (falls back to the account id) and the
\* permission set details, both from scripts.utils.aws_utils
FetchDetails ==
    /\ req.pc = "details"
    /\ \E raises \in BOOLEAN :
          /\ events' = Append(events, Call("get_permission_set_details", raises))
          /\ req' = IF raises
                    THEN handle_error(req, "Failed to grant access", "Exception")
                    ELSE [req EXCEPT !.details = "description", !.pc = "create"]
    /\ UNCHANGED <<probe, env, handler, tasks, nreq>>

\* lines 228-236: sso_admin.create_account_assignment
CreateAssignment ==
    /\ req.pc = "create"
    /\ \E raises \in BOOLEAN :
          /\ events' = Append(events, Call("create_account_assignment",
                                [raised |-> raises]))
          /\ req' = IF raises
                    THEN handle_error(req, "Failed to grant access", "Exception")
                    ELSE [req EXCEPT !.pc = "notify"]
    /\ UNCHANGED <<probe, env, handler, tasks, nreq>>

\* lines 245-253: notifications.send_access_granted; an exception of the
\* call is caught by the except clause of line 268 like any other
NotifyGranted ==
    /\ req.pc = "notify"
    /\ \E raises \in BOOLEAN :
          /\ events' = Append(events, Call("send_access_granted",
                                [permission_set |-> req.name,
                                 duration_seconds |-> req.duration_seconds,
                                 user_email |-> req.user_email, raised |-> raises]))
          /\ req' = IF raises
                    THEN handle_error(req, "Failed to grant access", "Exception")
                    ELSE [req EXCEPT !.pc = "schedule"]
    /\ UNCHANGED <<probe, env, handler, tasks, nreq>>

\* _schedule_revocation_webhook: the thread object with the arguments its
\* closure captured, started as a daemon
NewTask(user_email, duration_seconds, account_id, permission_set, policy_details, buckets) ==
    [grant |-> req.id, state |-> "started", waited |-> 0, sent |-> <<>>,
     user_email |-> user_email, duration_seconds |-> duration_seconds,
     account_id |-> account_id, permission_set |-> permission_set,
     policy_details |-> policy_details, buckets |-> buckets]

\* lines 255-266: schedule the revocation when the webhook URL is set
ScheduleRevocation ==
    /\ req.pc = "schedule"
    /\ IF env.webhook
       THEN /\ tasks' = Append(tasks,
                  NewTask(req.user_email, req.duration_seconds, AccountId,
                          Some(req.name),
                          [name |-> req.name, type |-> "sso", details |-> req.details],
                          Absent))
            /\ events' = Append(events, Call("_schedule_revocation_webhook", Len(tasks) + 1))
       ELSE UNCHANGED <<tasks, events>>
    /\ req' = Return(req)
    /\ UNCHANGED <<probe, env, handler, nreq>>

\* grant_s3_access without the NoSuchBucket handler of lines 287-288
HeadBucket_IgnoresMissing ==
    /\ req.pc = "head_bucket"
    /\ \E outcome \in {"ok", "NoSuchBucket", "ClientError"} :
          /\ events' = Append(events, Call("head_bucket", outcome))
          /\ req' = IF outcome \in {"ok", "NoSuchBucket"}
                    THEN [req EXCEPT !.pc = "update_policy"]
                    ELSE handle_error(req, "Failed to grant S3 access", "Exception")
    /\ UNCHANGED <<probe, env, handler, tasks, nreq>>

\* lines 285-290: s3.head_bucket; NoSuchBucket becomes a ValueError, any
\* other exception reaches the except clause of line 329 as it is
HeadBucket ==
    /\ req.pc = "head_bucket"
    /\ \E outcome \in {"ok", "NoSuchBucket", "ClientError"} :
          /\ events' = Append(events, Call("head_bucket", outcome))
          /\ req' = IF outcome = "ok" THEN [req EXCEPT !.pc = "update_policy"]
                    ELSE IF outcome = "NoSuchBucket"
                    THEN handle_error(req, "Failed to grant S3 access", "S3 bucket does not exist")
                    ELSE handle_error(req, "Failed to grant S3 access", "Exception")
    /\ UNCHANGED <<probe, env, handler, tasks, nreq>>

\* lines 292-299: update_bucket_policy(user_arn=user['Arn']); an Identity
\* Center user has no 'Arn' and the lookup raises KeyError before the call
UpdateBucketPolicy ==
    /\ req.pc = "update_policy"
    /\ IF "Arn" \notin DOMAIN req.user
       THEN /\ req' = handle_error(req, "Failed to grant S3 access", "KeyError")
            /\ UNCHANGED events
       ELSE \E outcome \in {"True", "False", "raise"} :
               /\ events' = Append(events, Call("update_bucket_policy", outcome))
               /\ req' = IF outcome = "True" THEN [req EXCEPT !.pc = "schedule_s3"]
                         ELSE IF outcome = "False"
                         THEN handle_error(req, "Failed to grant S3 access",
                                           "Failed to update bucket policy")
                         ELSE handle_error(req, "Failed to grant S3 access", "Exception")
    /\ UNCHANGED <<probe, env, handler, tasks, nreq>>

\* lines 301-312: the revocation is scheduled whatever the configuration
ScheduleS3Revocation ==
    /\ req.pc = "schedule_s3"
    /\ tasks' = Append(tasks,
          NewTask(req.user_email, req.duration_seconds, AccountId, Absent,
                  [name |-> req.name, type |-> "s3", template |-> req.details],
                  Some(<<req.name>>)))
    /\ events' = Append(events, Call("_schedule_revocation_webhook", Len(tasks) + 1))
    /\ req' = [req EXCEPT !.pc = "notify_s3"]
    /\ UNCHANGED <<probe, env, handler, nreq>>

\* lines 320-327: notifications.send_s3_access_granted
NotifyS3Granted ==
    /\ req.pc = "notify_s3"
    /\ \E raises \in BOOLEAN :
          /\ events' = Append(events, Call("send_s3_access_granted",
                                [bucket_name |-> req.name,
                                 duration_seconds |-> req.duration_seconds,
                                 user_email |-> req.user_email, raised |-> raises]))
          /\ req' = IF raises
                    THEN handle_error(req, "Failed to grant S3 access", "Exception")
                    ELSE Return(req)
    /\ UNCHANGED <<probe, env, handler, tasks, nreq>>

-----------------------------------------------------------------------------
(* revoke_access *)

\* revoke_access, lines 361-364: no duration is involved
StartRevoke ==
    /\ Serving /\ nreq < MaxRequests
    /\ \E user_email \in RequestEmails, permission_set_name \in RequestPsets :
          req' = [pc |-> "get_user", op |-> "revoke", id |-> nreq + 1,
                  user_email |-> user_email, name |-> permission_set_name,
                  user |-> None, permission_set_arn |-> None,
                  details |-> "", failure |-> None]
    /\ events' = <<>>
    /\ nreq' = nreq + 1
    /\ UNCHANGED <<probe, env, handler, tasks>>

\* revoke_access after the identity lookup of line 366: the rest of the
\* body is not part of the sources at hand; the identity platform's
\* remove-assignment call is made, and its failure fails the request
DeleteAssignment ==
    /\ req.pc = "delete_assignment"
    /\ \E raises \in BOOLEAN :
          /\ events' = Append(events, Call("delete_account_assignment",
                                [raised |-> raises]))
          /\ req' = IF raises
                    THEN handle_error(req, FailureMessage(req.op), "Exception")
                    ELSE [req EXCEPT !.pc = "notify_revoked"]
    /\ UNCHANGED <<probe, env, handler, tasks, nreq>>

\* the "revoked" notification that ends revoke_access; its failure is
\* logged and swallowed
NotifyRevoked ==
    /\ req.pc = "notify_revoked"
    /\ \E raises \in BOOLEAN :
          events' = Append(events, Call("send_access_revoked",
                              [permission_set |-> req.name,
                               user_email |-> req.user_email, raised |-> raises]))
    /\ req' = Return(req)
    /\ UNCHANGED <<probe, env, handler, tasks, nreq>>

-----------------------------------------------------------------------------
(* send_webhook: the body of a revocation thread *)

\* `if buckets` is false for None and for an empty list
Truthy(opt) == opt # Absent /\ opt[1] # <<>>

\* lines 341-345: without the URL the thread returns; otherwise it enters
\* time.sleep(duration_seconds), which raises ValueError for a negative
\* length and ends the thread
ThreadRun(t) ==
    /\ tasks[t].state = "started"
    /\ tasks' = [tasks EXCEPT ![t].state =
                    IF ~env.webhook THEN "skipped"
                    ELSE IF tasks[t].duration_seconds < 0 THEN "crashed"
                    ELSE "sleeping"]
    /\ UNCHANGED <<probe, env, handler, req, events, nreq>>

Remaining(t) == tasks[t].duration_seconds - tasks[t].waited

Sleepers == {t \in 1..Len(tasks) : tasks[t].state = "sleeping" /\ Remaining(t) > 0}

\* time passes, up to the moment a sleeping thread is due; `waited` is the
\* time a thread has spent in its sleep so far
Tick ==
    /\ \E u \in Sleepers :
          LET d == Remaining(u)
          IN  tasks' = [t \in 1..Len(tasks) |->
                          IF tasks[t].state = "sleeping"
                          THEN [tasks[t] EXCEPT !.waited =
                                   IF @ + d > tasks[t].duration_seconds
                                   THEN tasks[t].duration_seconds ELSE @ + d]
                          ELSE tasks[t]]
    /\ UNCHANGED <<probe, env, handler, req, events, nreq>>

\* the thread reading the identity of the request the handler is serving
\* when the sleep returns, not the one of its closure
ThreadSend_ReadsCurrentRequest(t) ==
    /\ tasks[t].state = "sleeping"
    /\ Remaining(t) <= 0
    /\ \E raises \in BOOLEAN :
          tasks' = [tasks EXCEPT
             ![t].state = IF raises THEN "crashed" ELSE "finished",
             ![t].sent = Append(@,
                 [user_email |-> req.user_email,
                  access_type |-> IF Truthy(tasks[t].buckets) THEN "s3" ELSE "sso",
                  policy_details |-> tasks[t].policy_details,
                  duration_seconds |-> tasks[t].duration_seconds,
                  account_id |-> tasks[t].account_id,
                  permission_set |-> tasks[t].permission_set,
                  buckets |-> tasks[t].buckets,
                  after |-> tasks[t].waited])]
    /\ UNCHANGED <<probe, env, handler, req, events, nreq>>

\* lines 346-355: the sleep has returned; the webhook is called once with
\* the captured arguments.  A failure of the call ends the thread.
ThreadSend(t) ==
    /\ tasks[t].state = "sleeping"
    /\ Remaining(t) <= 0
    /\ \E raises \in BOOLEAN :
          tasks' = [tasks EXCEPT
             ![t].state = IF raises THEN "crashed" ELSE "finished",
             ![t].sent = Append(@,
                 [user_email |-> tasks[t].user_email,
                  access_type |-> IF Truthy(tasks[t].buckets) THEN "s3" ELSE "sso",
                  policy_details |-> tasks[t].policy_details,
                  duration_seconds |-> tasks[t].duration_seconds,
                  account_id |-> tasks[t].account_id,
                  permission_set |-> tasks[t].permission_set,
                  buckets |-> tasks[t].buckets,
                  after |-> tasks[t].waited])]
    /\ UNCHANGED <<probe, env, handler, req, events, nreq>>

Next ==
    \/ Initialize
    \/ StartGrant
    \/ StartS3Grant
    \/ ResolveUser
    \/ ResolvePolicy
    \/ FetchDetails
    \/ CreateAssignment
    \/ NotifyGranted
    \/ ScheduleRevocation
    \/ HeadBucket
    \/ UpdateBucketPolicy
    \/ ScheduleS3Revocation
    \/ NotifyS3Granted
    \/ StartRevoke
    \/ DeleteAssignment
    \/ NotifyRevoked
    \/ \E t \in 1..Len(tasks) : ThreadRun(t)
    \/ Tick
    \/ \E t \in 1..Len(tasks) : ThreadSend(t)

Spec == Init /\ [][Next]_vars

-----------------------------------------------------------------------------
(* Specification of the two duration parsers on one text *)

Units == {"H", "M", "S", "X"}

\* the duration texts, and texts of two components in any order and with
\* any unit letter
CodecTexts ==
    DurationTexts \cup
    {PT \o a \o <<u>> \o b \o <<v>> : a \in NumberTexts, b \in NumberTexts,
                                       u \in Units, v \in Units} \cup
    {PT \o a \o <<u>> : a \in NumberTexts, u \in Units}

InitCodec ==
    /\ probe \in {[kind |-> "codec", phase |-> "input", text |-> t] : t \in CodecTexts}
    /\ SysIdle

ApplyCodec ==
    /\ probe.kind = "codec" /\ probe.phase = "input"
    /\ probe' = [kind |-> "codec", phase |-> "done", text |-> probe.text,
                 parsed |-> parse_iso_duration(probe.text),
                 coordinator |-> parse_iso8601_duration(probe.text)]
    /\ UNCHANGED sysVars

NextCodec == ApplyCodec

SpecCodec == InitCodec /\ [][NextCodec]_vars

-----------------------------------------------------------------------------
(* Specification of the two formatters on one seconds value *)

MaxSeconds == 9000

InitFormat ==
    /\ probe \in {[kind |-> "format", phase |-> "input", seconds |-> n] : n \in 0..MaxSeconds}
    /\ SysIdle

ApplyFormat ==
    /\ probe.kind = "format" /\ probe.phase = "input"
    /\ probe' = [kind |-> "format", phase |-> "done", seconds |-> probe.seconds,
                 coordinator |-> format_duration(probe.seconds),
                 formatter |-> slack_format_duration(probe.seconds)]
    /\ UNCHANGED sysVars

NextFormat == ApplyFormat

SpecFormat == InitFormat /\ [][NextFormat]_vars

-----------------------------------------------------------------------------
(* Properties *)

\* the accepted duration syntax: the marker followed by optional hours,
\* minutes and seconds components in that order, and nothing else
Accepted(text) ==
    LET match == MatchIsoPattern(text) IN match.ok /\ match.end = Len(text)

\* the seconds value the Duration Codec gives an accepted text
CodecSeconds(text) == parse_iso_duration(text).val

DurationDone == probe.kind = "duration" /\ probe.phase = "done"
ResolveDone == probe.kind = "resolve" /\ probe.phase = "done"

\* C1: for accepted requested and ceiling texts, validate_duration returns
\* the ceiling when the requested seconds exceed the ceiling's seconds and
\* the requested text otherwise, and the seconds grant_access goes on with
\* never exceed the ceiling's seconds.
C1_ClampsToCeiling ==
    (DurationDone /\ Accepted(probe.requested) /\ Accepted(probe.max)) =>
        /\ probe.validated =
              IF CodecSeconds(probe.requested) > CodecSeconds(probe.max)
              THEN probe.max ELSE probe.requested
        /\ probe.seconds <= CodecSeconds(probe.max)

\* C2: for a requested text that is not a valid encoded duration,
\* validate_duration returns the ceiling, so the malformed text is never
\* the validated duration and grant_access goes on with the ceiling.
C2_MalformedFallsBackToCeiling ==
    (DurationDone /\ ~Accepted(probe.requested)) =>
        /\ probe.validated = probe.max
        /\ probe.seconds = parse_iso8601_duration(probe.max)

EventsNamed(name) == {i \in 1..Len(events) : events[i][1] = name}
EventIs(i, name, arg) == events[i][1] = name /\ events[i][2] = arg
ScheduledFor(id) == \E t \in 1..Len(tasks) : tasks[t].grant = id

\* C3: in grant_access the create-grant call comes only after identity and
\* policy resolution both returned a match; when either is absent the
\* request fails with a not-found error and nothing is created, notified or
\* scheduled; when the create-grant call fails the request fails and
\* nothing is notified or scheduled.
C3_CreateOnlyAfterResolution ==
    /\ \A i \in EventsNamed("create_account_assignment") :
          /\ \E j \in 1..(i - 1) : EventIs(j, "get_user_by_email", "found")
          /\ \E k \in 1..(i - 1) : EventIs(k, "get_permission_set_arn", "found")
    /\ \A i \in 1..Len(events) :
          (\/ EventIs(i, "get_user_by_email", "absent")
           \/ EventIs(i, "get_permission_set_arn", "absent")) =>
             /\ i = Len(events)
             /\ req.pc = "failed"
             /\ req.failure.error \in {"User not found", "Permission set not found"}
             /\ EventsNamed("create_account_assignment") = {}
             /\ EventsNamed("send_access_granted") = {}
             /\ EventsNamed("_schedule_revocation_webhook") = {}
             /\ ~ScheduledFor(req.id)
    /\ \A i \in EventsNamed("create_account_assignment") :
          events[i][2].raised =>
             /\ i = Len(events)
             /\ req.pc = "failed"
             /\ EventsNamed("send_access_granted") = {}
             /\ ~ScheduledFor(req.id)

\* a grant whose create-grant call was made, and failed
C3_Witness ==
    /\ req.pc = "failed" /\ req.op = "sso"
    /\ \E i \in EventsNamed("create_account_assignment") : events[i][2].raised

\* a grant that failed because the permission set was absent
C3_WitnessNotFound ==
    /\ req.pc = "failed"
    /\ \E i \in 1..Len(events) : EventIs(i, "get_permission_set_arn", "absent")

\* C4: once the create-grant call has succeeded, a raised failure of the
\* granted-notification call does not make grant_access report a failure.
C4_NotificationFailureSwallowed ==
    \A i \in EventsNamed("send_access_granted") :
        events[i][2].raised => req.pc # "failed"

\* C5: without a revocation-webhook URL no grant operation starts a
\* background task and no timed wait is performed.
C5_NoTaskWithoutWebhook ==
    ~env.webhook =>
        /\ tasks = <<>>
        /\ \A t \in 1..Len(tasks) : tasks[t].state # "sleeping" /\ tasks[t].waited = 0

\* the part of C5 that is about the timed wait alone
C5_NoSleepWithoutWebhook ==
    ~env.webhook =>
        \A t \in 1..Len(tasks) : tasks[t].state # "sleeping" /\ tasks[t].waited = 0

Captured(t) ==
    [user_email |-> tasks[t].user_email,
     access_type |-> IF tasks[t].buckets = Absent THEN "sso" ELSE "s3",
     policy_details |-> tasks[t].policy_details,
     duration_seconds |-> tasks[t].duration_seconds,
     account_id |-> tasks[t].account_id,
     permission_set |-> tasks[t].permission_set,
     buckets |-> tasks[t].buckets]

WithoutAfter(payload) == [f \in DOMAIN payload \ {"after"} |-> payload[f]]

\* the safety part of C6: at most one webhook call per task, not before the
\* whole duration was slept, with the captured arguments
C6_WebhookOnceAfterDuration ==
    \A t \in 1..Len(tasks) :
        /\ Len(tasks[t].sent) <= 1
        /\ tasks[t].sent # <<>> =>
              /\ tasks[t].sent[1].after >= tasks[t].duration_seconds
              /\ WithoutAfter(tasks[t].sent[1]) = Captured(t)

\* C6: with the webhook URL configured, a scheduled revocation task calls
\* the webhook at most once, not before the duration has elapsed, with the
\* captured arguments, and does call it: a task that has ended has called it.
C6_RevocationFires ==
    /\ C6_WebhookOnceAfterDuration
    /\ env.webhook =>
          \A t \in 1..Len(tasks) :
              tasks[t].state \in {"finished", "crashed", "skipped"} =>
                  Len(tasks[t].sent) = 1

\* C7: when the requested duration exceeds the ceiling, the granted
\* notification carries the ceiling's seconds as the Duration Codec gives
\* them, and the duration shown is their formatted value.
C7_NotificationShowsCeiling ==
    \A i \in EventsNamed("send_access_granted") :
        (/\ Accepted(req.requested) /\ Accepted(req.max)
         /\ CodecSeconds(req.requested) > CodecSeconds(req.max)) =>
            /\ events[i][2].duration_seconds = CodecSeconds(req.max)
            /\ req.duration_display = format_duration(CodecSeconds(req.max))

IamCalls == {"iam.list_users", "iam.list_user_tags"}
AMatched == ~probe.ic.raises /\ probe.ic.Users # <<>>

\* C8: backend A is queried first; when A returns a match, that match is
\* the result and backend B is not called at all.
C8_AShortCircuitsB ==
    ResolveDone =>
        /\ probe.calls # <<>> /\ probe.calls[1][1] = "identitystore.list_users"
        /\ \A i \in 2..Len(probe.calls) : probe.calls[i][1] \in IamCalls
        /\ AMatched =>
              /\ probe.result = probe.ic.Users[1]
              /\ \A i \in 1..Len(probe.calls) : probe.calls[i][1] \notin IamCalls

\* A matched while backend B held a user with the requested name
C8_Witness ==
    /\ ResolveDone /\ AMatched
    /\ probe.result = probe.ic.Users[1]
    /\ \E p \in 1..Len(probe.iam.pages) : \E i \in 1..Len(probe.iam.pages[p]) :
          Lower(probe.iam.pages[p][i].UserName) = Lower(probe.email)

\* the IAM users the paginator yields before it ends or raises
RECURSIVE Flatten(_)
Flatten(pages) == IF pages = <<>> THEN <<>> ELSE Head(pages) \o Flatten(Tail(pages))
Yielded(iam) ==
    Flatten(IF iam.failAfter = NoFailure THEN iam.pages
            ELSE SubSeq(iam.pages, 1, iam.failAfter))

UserMatches(u, email) ==
    \/ Lower(u.UserName) = Lower(email)
    \/ ~u.TagsRaise /\ \E t \in 1..Len(u.Tags) : TagMatches(u.Tags[t], email)

FirstMatch(users, email) ==
    LET hits == {k \in 1..Len(users) : UserMatches(users[k], email)}
    IN  IF hits = {} THEN 0 ELSE CHOOSE k \in hits : \A h \in hits : k <= h

\* the enumeration of backend B raised before any user matched
BRaised ==
    /\ probe.iam.failAfter # NoFailure
    /\ FirstMatch(Yielded(probe.iam), probe.email) = 0

\* C9: when the backend A query raises and the backend B enumeration
\* raises, the failure propagates to the caller; 'not found' is returned
\* only when the backends were queried and hold no match.
C9_BothFailuresPropagate ==
    ResolveDone =>
        /\ (probe.ic.raises /\ BRaised) => probe.raised
        /\ (~probe.raised /\ probe.result = None) => ~(probe.ic.raises /\ BRaised)

\* C10: a failure of one backend is 'no match from this backend' and is
\* not thrown: when the A query raises, B is still queried; a failing tag
\* lookup skips that user only, so the first matching user that B yields
\* is returned whatever lookups failed before it.
C10_BackendFailureIsNoMatch ==
    ResolveDone =>
        /\ ~probe.raised
        /\ probe.ic.raises =>
              \E i \in 1..Len(probe.calls) : probe.calls[i][1] = "iam.list_users"
        /\ ~AMatched =>
              LET users == Yielded(probe.iam)
                  k     == FirstMatch(users, probe.email)
              IN  probe.result = IF k = 0 THEN None ELSE users[k]

\* A raised, the tag lookup of B's first user raised, and a later user of B
\* was returned
C10_Witness ==
    /\ ResolveDone /\ probe.ic.raises
    /\ probe.iam.pages[1] # <<>> /\ probe.iam.pages[1][1].TagsRaise
    /\ probe.result # None
    /\ \E i \in 1..Len(probe.calls) : probe.calls[i][1] = "iam.list_user_tags"

PolicyDone == probe.kind = "policy" /\ probe.phase = "done"

\* the first entry the scan stops at: its describe call raises, or its name
\* is the requested one (0 when the scan stops at none)
FirstStop(entries, name) ==
    LET stops == {k \in 1..Len(entries) :
                     entries[k].DescribeRaises \/ entries[k].Name = name}
    IN  IF stops = {} THEN 0 ELSE CHOOSE k \in stops : \A h \in stops : k <= h

IsDescribe(call) == call[1] = "sso.describe_permission_set"

\* C11: policy resolution returns the first permission set, in page order
\* and then in-page order, whose name is exactly the requested one, and
\* describes no permission set after it; for a name that no page holds it
\* returns None and raises nothing.  An error is raised only when a listing
\* or describe call made on the way fails.
C11_FirstPageOrderMatch ==
    PolicyDone =>
        LET entries   == Yielded(probe.catalog)
            k         == FirstStop(entries, probe.name)
            described == SelectSeq(probe.calls, IsDescribe)
        IN  IF k # 0 /\ ~entries[k].DescribeRaises
            THEN /\ ~probe.raised
                 /\ probe.result = [kind |-> "arn", id |-> entries[k].arn]
                 /\ \A j \in 1..(k - 1) : entries[j].Name # probe.name
                 /\ described = [j \in 1..k |-> <<"sso.describe_permission_set", entries[j].arn>>]
            ELSE IF k = 0 /\ probe.catalog.failAfter = NoFailure
            THEN ~probe.raised /\ probe.result = None
            ELSE probe.raised

\* a match on the first page, with a permission set of the same name on a
\* later page that was not described
C11_Witness ==
    /\ PolicyDone /\ ~probe.raised /\ probe.result # None
    /\ Len(probe.catalog.pages) >= 2
    /\ probe.result.id <= PageLen
    /\ \E i \in 1..Len(probe.catalog.pages[2]) :
          probe.catalog.pages[2][i].Name = probe.name
    /\ Len(SelectSeq(probe.calls, IsDescribe)) = probe.result.id

\* a name that no page holds
C11_WitnessAbsent ==
    /\ PolicyDone /\ ~probe.raised /\ probe.result = None
    /\ Len(probe.catalog.pages) >= 2

\* C12: initialization reaches Ready only when exactly one identity-platform
\* instance was discovered.
C12_ReadyOnlyWithOneInstance ==
    handler.state = "Ready" => handler.instances = 1

\* C15: in grant_s3_access the bucket policy is updated only after the
\* identity was resolved and the bucket-existence check succeeded; when the
\* identity or the bucket is absent the request fails with a not-found
\* error and nothing is updated, scheduled or notified.
C15_BucketPolicyOnlyAfterChecks ==
    /\ \A i \in EventsNamed("update_bucket_policy") :
          \E j \in 1..(i - 1) :
             /\ EventIs(j, "get_user_by_email", "found")
             /\ \E k \in (j + 1)..(i - 1) : EventIs(k, "head_bucket", "ok")
    /\ (req.pc # "idle" /\ req.op = "s3") =>
          \A i \in 1..Len(events) :
             (\/ EventIs(i, "get_user_by_email", "absent")
              \/ EventIs(i, "head_bucket", "NoSuchBucket")) =>
                /\ i = Len(events)
                /\ req.pc = "failed"
                /\ req.failure.message = "Failed to grant S3 access"
                /\ req.failure.error \in {"User not found", "S3 bucket does not exist"}
                /\ EventsNamed("update_bucket_policy") = {}
                /\ EventsNamed("_schedule_revocation_webhook") = {}
                /\ EventsNamed("send_s3_access_granted") = {}
                /\ ~ScheduledFor(req.id)

\* an S3 grant that failed because the bucket does not exist
C15_Witness ==
    /\ req.pc = "failed" /\ req.op = "s3"
    /\ req.failure.error = "S3 bucket does not exist"
    /\ EventIs(Len(events), "head_bucket", "NoSuchBucket")

\* an S3 grant whose bucket policy was updated
C15_WitnessUpdated ==
    /\ req.pc # "idle" /\ req.op = "s3"
    /\ \E i \in EventsNamed("update_bucket_policy") : events[i][2] = "True"

\* C17: a grant_access whose create-grant call succeeded, with the webhook
\* URL configured, has a revocation task once the operation is over,
\* whatever the outcome of the granted notification.
C17_SuccessfulGrantIsScheduled ==
    (/\ req.pc \in {"done", "failed"} /\ req.op = "sso"
     /\ env.webhook
     /\ \E i \in EventsNamed("create_account_assignment") : ~events[i][2].raised)
    => ScheduledFor(req.id)

CodecDone == probe.kind = "codec" /\ probe.phase = "done"

\* C13: parse_iso_duration returns hours*3600 + minutes*60 + seconds for
\* every text of the accepted syntax and fails with a format error for
\* every other text.
C13_ParseRejectsOtherTexts ==
    CodecDone =>
        LET match == MatchIsoPattern(probe.text)
        IN  /\ probe.parsed.ok <=> Accepted(probe.text)
            /\ probe.parsed.ok =>
                  probe.parsed.val = match.hours * 3600 + match.minutes * 60 + match.seconds

\* the half of C13 that holds: accepted texts are parsed to their seconds
C13_AcceptedTextsParsed ==
    (CodecDone /\ Accepted(probe.text)) =>
        LET match == MatchIsoPattern(probe.text)
        IN  /\ probe.parsed.ok
            /\ probe.parsed.val = match.hours * 3600 + match.minutes * 60 + match.seconds

\* C18: for every text the codec accepts, parse_iso8601_duration and
\* parse_iso_duration return the same number of seconds.
C18_ParsersAgree ==
    (CodecDone /\ Accepted(probe.text)) =>
        /\ probe.parsed.ok
        /\ probe.coordinator = probe.parsed.val

FormatDone == probe.kind = "format" /\ probe.phase = "done"

Tenths(t) == ToString(t \div 10) \o "." \o ToString(t % 10)

\* C14: format_duration(s) is, for s >= 3600, s/3600 to the nearest tenth
\* followed by " hours"; for 60 <= s < 3600, the integer part of s/60
\* followed by " minutes"; below 60, s followed by " seconds"; and the
\* coordinator's formatter and the message formatter's give the same text.
C14_FormatThresholds ==
    FormatDone =>
        LET s == probe.seconds
        IN  /\ probe.coordinator = probe.formatter
            /\ s >= 3600 =>
                  \E t \in {s \div 360, s \div 360 + 1} :
                     /\ 360 * t - s <= 180 /\ s - 360 * t <= 180
                     /\ probe.formatter = Tenths(t) \o " hours"
            /\ (s >= 60 /\ s < 3600) =>
                  probe.formatter = ToString(s \div 60) \o " minutes"
            /\ s < 60 => probe.formatter = ToString(s) \o " seconds"
            /\ s = 5400 => probe.formatter = "1.5 hours"
            /\ s = 90 => probe.formatter = "1 minutes"
            /\ s = 45 => probe.formatter = "45 seconds"

\* 5400 seconds formatted as one hour and a half
C14_Witness ==
    /\ FormatDone /\ probe.seconds = 5400
    /\ probe.coordinator = "1.5 hours" /\ probe.formatter = "1.5 hours"

\* what a task holds of the grant that scheduled it
Params(task) ==
    [grant |-> task.grant, user_email |-> task.user_email,
     duration_seconds |-> task.duration_seconds, account_id |-> task.account_id,
     permission_set |-> task.permission_set, policy_details |-> task.policy_details,
     buckets |-> task.buckets]

\* the steps of a task's own thread
TaskProgress(old, new) ==
    \/ new = old
    \/ old = "started" /\ new \in {"sleeping", "crashed", "skipped"}
    \/ old = "sleeping" /\ new \in {"finished", "crashed"}

Due(task) == task.state = "sleeping" /\ task.duration_seconds - task.waited <= 0

\* one step of the process, as far as the revocation tasks are concerned
IsolatedStep ==
    /\ Len(tasks') \in {Len(tasks), Len(tasks) + 1}
    /\ \A t \in 1..Len(tasks) :
          /\ Params(tasks'[t]) = Params(tasks[t])
          /\ TaskProgress(tasks[t].state, tasks'[t].state)
          /\ tasks'[t].waited >= tasks[t].waited
          /\ tasks'[t].waited <= tasks[t].duration_seconds \/ tasks'[t].waited = tasks[t].waited
          /\ (req' # req \/ Len(tasks') # Len(tasks)) => tasks'[t] = tasks[t]
          /\ (Due(tasks[t]) /\ tasks'[t].state = "sleeping") => Due(tasks'[t])
          /\ \/ tasks'[t].sent = tasks[t].sent
             \/ /\ tasks[t].sent = <<>> /\ Len(tasks'[t].sent) = 1
                /\ WithoutAfter(tasks'[t].sent[1]) = Captured(t)
                /\ tasks'[t].sent[1].after = tasks[t].duration_seconds
                /\ \A u \in 1..Len(tasks) : u # t => tasks'[u] = tasks[u]
    /\ \A t, u \in 1..Len(tasks) :
          (tasks'[t].state # tasks[t].state /\ tasks'[u].state # tasks[u].state) => t = u
    /\ Len(tasks') = Len(tasks) + 1 =>
          LET new == tasks'[Len(tasks')]
          IN  /\ new.grant = req.id /\ new.state = "started"
              /\ new.waited = 0 /\ new.sent = <<>>
              /\ new.user_email = req.user_email
              /\ new.duration_seconds = req.duration_seconds
              /\ new.account_id = AccountId
              /\ new.policy_details.name = req.name
              /\ IF req.op = "s3"
                 THEN new.buckets = Some(<<req.name>>) /\ new.permission_set = Absent
                 ELSE new.buckets = Absent /\ new.permission_set = Some(req.name)

\* C16: whatever the interleaving of grant requests and revocation tasks, a
\* task holds the parameters of the grant that scheduled it from its start
\* to its end, a webhook call carries exactly these parameters after
\* exactly the delay of that grant, no step of a later grant or of another
\* task changes them, and a task is moved only by its own thread: a task
\* that is due stays due until it fires, whatever the others do.  (That a
\* task does fire is C6.)
C16_TasksAreIsolated == [][IsolatedStep]_vars

\* two tasks of grants with different identities and durations have both
\* fired, each with its own parameters
C16_Witness ==
    /\ Len(tasks) >= 2
    /\ tasks[1].sent # <<>> /\ tasks[2].sent # <<>>
    /\ tasks[1].user_email # tasks[2].user_email
    /\ tasks[1].duration_seconds # tasks[2].duration_seconds
    /\ WithoutAfter(tasks[1].sent[1]) = Captured(1)
    /\ WithoutAfter(tasks[2].sent[1]) = Captured(2)

=============================================================================
